---- MODULE Spec2Model ----
(***************************************************************************)
(* Model of the verification solver of moltbook.py: the fuzzy number       *)
(* extractor (_word_matches_at, _find_numbers) and solve_challenge.        *)
(*                                                                         *)
(* A Python str is a sequence of one-character strings.  Offsets are the   *)
(* 0-based offsets of the code: the character at offset k of s is s[k+1].  *)
(* The characters of the model are ASCII letters, digits, the space and a  *)
(* few punctuation marks; integers stay below 2^31, so the digit runs of   *)
(* the inputs are short and every float of the code is an exact rational.  *)
(***************************************************************************)
EXTENDS Integers, Sequences, FiniteSets, TLC

\* The state of one call of solve_challenge: its argument, the block it has
\* reached (pc), the locals of _find_numbers (ad, boundaries, raw, pos, combined,
\* i), the locals of solve_challenge (numbers, a, b) and its outcome (result).
\* earlier is the argument and the outcome of the call before this one.
\* The caller of solve_challenge: the block post_with_verify, comment_with_verify
\* and _verify have reached (vpc), the response of the create request (resp),
\* the argument verification of _verify, the POST /verify requests sent so far
\* (requests) and the value returned to the caller (returned).
\* The feed cursor: the state dict of load_state (state), the list the latest
\* call of get_new_feed_posts or mark_post_seen returned (new_posts), and the
\* post ids fetched or marked so far (known).
VARIABLES state, new_posts, known, vpc, resp, verification, requests, returned, earlier, challenge_text, pc, ad, boundaries, raw, pos, combined, i, numbers, a, b, result

caller == <<vpc, resp, verification, requests, returned>>

feed == <<state, new_posts, known>>

vars == <<feed, caller, earlier, challenge_text, pc, ad, boundaries, raw, pos, combined, i, numbers, a, b, result>>

LowerLetters == <<"a","b","c","d","e","f","g","h","i","j","k","l","m","n","o","p","q","r","s","t","u","v","w","x","y","z">>

UpperLetters == <<"A","B","C","D","E","F","G","H","I","J","K","L","M","N","O","P","Q","R","S","T","U","V","W","X","Y","Z">>

DigitChars == <<"0","1","2","3","4","5","6","7","8","9">>

Range(s) == {s[k] : k \in DOMAIN s}

At(s, k) == s[k + 1]

\* s[k:e] of the code, for 0 <= k <= e <= len(s)
Slice(s, k, e) == SubSeq(s, k + 1, e)

IndexOf(s, c) == CHOOSE k \in DOMAIN s : s[k] = c

\* str.isalpha / str.isdigit / \s, on the characters of the model
IsAlpha(c) == c \in Range(LowerLetters) \cup Range(UpperLetters)

IsDigit(c) == c \in Range(DigitChars)

IsSpace(c) == c = " "

IsAlnum(c) == IsAlpha(c) \/ IsDigit(c)

\* str.lower, one character
LowerChar(c) == IF c \in Range(UpperLetters) THEN LowerLetters[IndexOf(UpperLetters, c)] ELSE c

\* str.lower
Lower(s) == SubSeq([k \in DOMAIN s |-> LowerChar(s[k])], 1, Len(s))

\* int(c) of one digit character
DigitVal(c) == IndexOf(DigitChars, c) - 1

\* int(s) of a digit run
RECURSIVE ToInt(_)
ToInt(s) == IF s = <<>> THEN 0 ELSE 10 * ToInt(SubSeq(s, 1, Len(s) - 1)) + DigitVal(s[Len(s)])

\* the result of a failed match (None in the code)
None == -1

\* _W2N, in insertion order
W2N == <<
      [w |-> <<"z","e","r","o">>, v |-> 0],
      [w |-> <<"o","n","e">>, v |-> 1],
      [w |-> <<"t","w","o">>, v |-> 2],
      [w |-> <<"t","h","r","e","e">>, v |-> 3],
      [w |-> <<"f","o","u","r">>, v |-> 4],
      [w |-> <<"f","i","v","e">>, v |-> 5],
      [w |-> <<"s","i","x">>, v |-> 6],
      [w |-> <<"s","e","v","e","n">>, v |-> 7],
      [w |-> <<"e","i","g","h","t">>, v |-> 8],
      [w |-> <<"n","i","n","e">>, v |-> 9],
      [w |-> <<"t","e","n">>, v |-> 10],
      [w |-> <<"e","l","e","v","e","n">>, v |-> 11],
      [w |-> <<"t","w","e","l","v","e">>, v |-> 12],
      [w |-> <<"t","h","i","r","t","e","e","n">>, v |-> 13],
      [w |-> <<"f","o","u","r","t","e","e","n">>, v |-> 14],
      [w |-> <<"f","i","f","t","e","e","n">>, v |-> 15],
      [w |-> <<"s","i","x","t","e","e","n">>, v |-> 16],
      [w |-> <<"s","e","v","e","n","t","e","e","n">>, v |-> 17],
      [w |-> <<"e","i","g","h","t","e","e","n">>, v |-> 18],
      [w |-> <<"n","i","n","e","t","e","e","n">>, v |-> 19],
      [w |-> <<"t","w","e","n","t","y">>, v |-> 20],
      [w |-> <<"t","h","i","r","t","y">>, v |-> 30],
      [w |-> <<"f","o","r","t","y">>, v |-> 40],
      [w |-> <<"f","i","f","t","y">>, v |-> 50],
      [w |-> <<"s","i","x","t","y">>, v |-> 60],
      [w |-> <<"s","e","v","e","n","t","y">>, v |-> 70],
      [w |-> <<"e","i","g","h","t","y">>, v |-> 80],
      [w |-> <<"n","i","n","e","t","y">>, v |-> 90],
      [w |-> <<"h","u","n","d","r","e","d">>, v |-> 100],
      [w |-> <<"t","h","o","u","s","a","n","d">>, v |-> 1000],
      [w |-> <<"t","w","e","n","n","y">>, v |-> 20],
      [w |-> <<"t","w","n","t","y">>, v |-> 20],
      [w |-> <<"f","o","u","r","t","y">>, v |-> 40]
   >>

Words == [k \in DOMAIN W2N |-> W2N[k].w]

\* _W2N[word]
W2NValue(word) == W2N[CHOOSE k \in DOMAIN W2N : W2N[k].w = word].v

\* the place of the k-th word of _W2N in the stable sort by decreasing length
SortRank(k) == 1 + Cardinality({j \in DOMAIN Words : Len(Words[j]) > Len(Words[k]) \/ (Len(Words[j]) = Len(Words[k]) /\ j < k)})

\* _SORTED_WORDS: sorted(_W2N.keys(), key=len, reverse=True), a stable sort
SORTED_WORDS == <<>> \o [n \in DOMAIN Words |-> Words[CHOOSE k \in DOMAIN Words : SortRank(k) = n]]

TensValues == {20, 30, 40, 50, 60, 70, 80, 90}

\* end of the run of characters c of s that starts at offset ti
RunEnd(s, ti, c) == CHOOSE e \in ti..Len(s) : (e = Len(s) \/ At(s, e) # c) /\ (\A k \in ti..(e - 1) : At(s, k) = c)

\* lines 109-124: the offset after the characters that word[wi] consumes at ti
Consume(word, s, wi, ti, run_end, bnds) ==
   IF wi + 1 >= Len(word)
   THEN (IF run_end \in bnds THEN run_end ELSE ti + 1)
   ELSE IF At(word, wi + 1) = At(word, wi) THEN ti + 1 ELSE run_end

\* a matcher that substitutes at every position of the word, the first and the
\* last included
RECURSIVE WordMatchLoopAnywhere(_, _, _, _, _, _, _)
WordMatchLoopAnywhere(word, s, wi, ti, subs_used, max_subs, bnds) ==
   IF wi >= Len(word) THEN ti
   ELSE IF ti >= Len(s) THEN None
   ELSE IF At(s, ti) # At(word, wi)
   THEN IF subs_used < max_subs
        THEN WordMatchLoopAnywhere(word, s, wi + 1, ti + 1, subs_used + 1, max_subs, bnds)
        ELSE None
   ELSE WordMatchLoopAnywhere(word, s, wi + 1, Consume(word, s, wi, ti, RunEnd(s, ti, At(word, wi)), bnds),
                              subs_used, max_subs, bnds)

\* the loop "while wi < len(word)" of _word_matches_at, lines 92-126
RECURSIVE WordMatchLoop(_, _, _, _, _, _, _)
WordMatchLoop(word, s, wi, ti, subs_used, max_subs, bnds) ==
   IF wi >= Len(word) THEN ti
   ELSE IF ti >= Len(s) THEN None
   ELSE IF At(s, ti) # At(word, wi)
   THEN IF subs_used < max_subs /\ 0 < wi /\ wi < Len(word) - 1
        THEN WordMatchLoop(word, s, wi + 1, ti + 1, subs_used + 1, max_subs, bnds)
        ELSE None
   ELSE WordMatchLoop(word, s, wi + 1, Consume(word, s, wi, ti, RunEnd(s, ti, At(word, wi)), bnds),
                      subs_used, max_subs, bnds)

\* _word_matches_at(word, text, pos, max_subs, boundaries): the offset after
\* the match, or None.  Every caller passes the boundary set.
word_matches_at(word, s, p, max_subs, bnds) == WordMatchLoop(word, s, 0, p, 0, max_subs, bnds)

\* _find_numbers, lines 142-158: ad keeps the letters and digits of the text in
\* order
AlphaDigits(text_lower) == SelectSeq(text_lower, IsAlnum)

\* _find_numbers, lines 142-158: an offset of ad is a boundary when the
\* character before it ends a run of letters and digits of the text (it is
\* followed by another character or by the end of the text)
Boundaries(text_lower) ==
   {Cardinality({k \in 1..e : IsAlnum(text_lower[k])}) :
       e \in {j \in DOMAIN text_lower : IsAlnum(text_lower[j]) /\ (j = Len(text_lower) \/ ~IsAlnum(text_lower[j + 1]))}}

\* m.end() of re.match(r'\d+', s[p:]), counted from offset 0 of s; p itself
\* when no digit starts there
DigitRunEnd(s, p) == CHOOSE e \in p..Len(s) : (e = Len(s) \/ ~IsDigit(At(s, e))) /\ (\A k \in p..(e - 1) : IsDigit(At(s, k)))

\* any(_word_matches_at(w2, ad, end, boundaries=boundaries) is not None for w2 in _SORTED_WORDS)
NextIsNum(s, end, bnds) == \E k \in DOMAIN SORTED_WORDS : word_matches_at(SORTED_WORDS[k], s, end, 0, bnds) # None

\* an acceptance test without the look-ahead for a following number word
AcceptsWithoutLookahead(word, s, end, bnds, prev_is_tens) ==
   \/ end \in bnds
   \/ (prev_is_tens /\ W2NValue(word) \in 1..9)

\* the acceptance test of lines 179-185 and 194-200: at_boundary or next_is_num
\* or is_units_after_tens
Accepts(word, s, end, bnds, prev_is_tens) ==
   \/ end \in bnds
   \/ NextIsNum(s, end, bnds)
   \/ (prev_is_tens /\ W2NValue(word) \in 1..9)

\* the body of "for word in _SORTED_WORDS" for a word that matched up to end
\* (None when it did not): the new (best_val, best_end)
TryWord(word, end, best, s, bnds, prev_is_tens) ==
   IF end # None /\ end > best.end /\ Accepts(word, s, end, bnds, prev_is_tens)
   THEN [val |-> W2NValue(word), end |-> end]
   ELSE best

\* one pass of "for word in _SORTED_WORDS" (lines 174-186 with max_subs = 0 and
\* min_len = 0, lines 189-201 with max_subs = 1 and min_len = 5), from word k on
RECURSIVE WordLoop(_, _, _, _, _, _, _, _)
WordLoop(k, s, p, bnds, prev_is_tens, max_subs, min_len, best) ==
   IF k > Len(SORTED_WORDS) THEN best
   ELSE IF Len(SORTED_WORDS[k]) < min_len
   THEN WordLoop(k + 1, s, p, bnds, prev_is_tens, max_subs, min_len, best)
   ELSE WordLoop(k + 1, s, p, bnds, prev_is_tens, max_subs, min_len,
                 TryWord(SORTED_WORDS[k], word_matches_at(SORTED_WORDS[k], s, p, max_subs, bnds), best, s, bnds, prev_is_tens))

\* words shorter than this are not tried with a substitution
SubsMinLen == 5

\* lines 187-201: the substitution pass runs when the exact pass found no word
WithSubstitution(exact, s, p, bnds, prev_is_tens) ==
   IF exact.val = None
   THEN WordLoop(1, s, p, bnds, prev_is_tens, 1, SubsMinLen, exact)
   ELSE exact

\* lines 170-201: (best_val, best_end) at offset p
BestWord(s, p, bnds, prev_is_tens) ==
   WithSubstitution(WordLoop(1, s, p, bnds, prev_is_tens, 0, 0, [val |-> None, end |-> p]), s, p, bnds, prev_is_tens)

\* line 172: the last token is a tens value that ends at p
PrevIsTens(toks, p) == toks # <<>> /\ toks[Len(toks)][3] = p /\ toks[Len(toks)][1] \in TensValues

\* lines 202-206
WordToken(toks, p, best) ==
   IF best.val # None
   THEN [raw |-> Append(toks, <<best.val, p, best.end>>), pos |-> best.end]
   ELSE [raw |-> toks, pos |-> p + 1]

\* lines 164-168
DigitToken(s, toks, p, m_end) == [raw |-> Append(toks, <<ToInt(Slice(s, p, m_end)), p, m_end>>), pos |-> m_end]

\* a scan that appends the token and then moves on by one character only
ScanStepByOne(s, bnds, toks, p) ==
   IF IsDigit(At(s, p))
   THEN [raw |-> DigitToken(s, toks, p, DigitRunEnd(s, p)).raw, pos |-> p + 1]
   ELSE [raw |-> WordToken(toks, p, BestWord(s, p, bnds, PrevIsTens(toks, p))).raw, pos |-> p + 1]

\* one iteration of the scan loop "while pos < len(ad)", lines 162-206: the
\* new raw and pos
ScanStep(s, bnds, toks, p) ==
   IF IsDigit(At(s, p))
   THEN DigitToken(s, toks, p, DigitRunEnd(s, p))
   ELSE WordToken(toks, p, BestWord(s, p, bnds, PrevIsTens(toks, p)))

\* a combine pass that does not look at the gap between the two tokens
CombineStepIgnoringGap(toks, acc, k) ==
   IF k + 1 < Len(toks) /\ toks[k + 1][1] \in TensValues /\ 1 <= toks[k + 2][1] /\ toks[k + 2][1] <= 9
   THEN [combined |-> Append(acc, toks[k + 1][1] + toks[k + 2][1]), i |-> k + 2]
   ELSE IF k + 1 < Len(toks) /\ toks[k + 2][1] = 100
   THEN [combined |-> Append(acc, toks[k + 1][1] * 100), i |-> k + 2]
   ELSE [combined |-> Append(acc, toks[k + 1][1]), i |-> k + 1]

\* one iteration of the combine loop "while i < len(raw)", lines 212-222: the
\* new combined and i
CombineStep(toks, acc, k) ==
   IF k + 1 < Len(toks) /\ toks[k + 2][2] = toks[k + 1][3] /\ toks[k + 1][1] \in TensValues
      /\ 1 <= toks[k + 2][1] /\ toks[k + 2][1] <= 9
   THEN [combined |-> Append(acc, toks[k + 1][1] + toks[k + 2][1]), i |-> k + 2]
   ELSE IF k + 1 < Len(toks) /\ toks[k + 2][2] = toks[k + 1][3] /\ toks[k + 2][1] = 100
   THEN [combined |-> Append(acc, toks[k + 1][1] * 100), i |-> k + 2]
   ELSE [combined |-> Append(acc, toks[k + 1][1]), i |-> k + 1]

(***************************************************************************)
(* Regular expressions.  A pattern is a set of alternatives; an            *)
(* alternative is a sequence of items, an item a character class with      *)
(* its quantifier: x+ (Plus), x (One), x? (Opt).  The optional group of    *)
(* 'slow(?:s|ing|ed)?' is written as one alternative per branch.           *)
(***************************************************************************)
Plus(cs) == [cs |-> cs, q |-> "+"]

One(cs) == [cs |-> cs, q |-> "1"]

Opt(cs) == [cs |-> cs, q |-> "?"]

\* the items of alt from the n-th on match s at offset j
RECURSIVE MatchFrom(_, _, _, _)
MatchFrom(alt, n, s, j) ==
   IF n > Len(alt) THEN TRUE
   ELSE CASE alt[n].q = "1" -> j < Len(s) /\ At(s, j) \in alt[n].cs /\ MatchFrom(alt, n + 1, s, j + 1)
          [] alt[n].q = "?" -> (j < Len(s) /\ At(s, j) \in alt[n].cs /\ MatchFrom(alt, n + 1, s, j + 1)) \/ MatchFrom(alt, n + 1, s, j)
          [] alt[n].q = "+" -> j < Len(s) /\ At(s, j) \in alt[n].cs /\ (MatchFrom(alt, n, s, j + 1) \/ MatchFrom(alt, n + 1, s, j + 1))

\* _match(pattern, text): bool(re.search(pattern, text))
Match(pattern, s) == \E alt \in pattern : \E j \in 0..Len(s) : MatchFrom(alt, 1, s, j)

\* r'd+o+u+b+l+e[sd]?' (line 247), one sequence of items per alternative
DoublePattern ==
   {
      <<Plus({"d"}), Plus({"o"}), Plus({"u"}), Plus({"b"}), Plus({"l"}), One({"e"}), Opt({"s","d"})>>
   }

\* r't+r+i+p+l+e[sd]?' (line 248), one sequence of items per alternative
TriplePattern ==
   {
      <<Plus({"t"}), Plus({"r"}), Plus({"i"}), Plus({"p"}), Plus({"l"}), One({"e"}), Opt({"s","d"})>>
   }

\* r'h+a+l+v+e[sd]?' (line 249), one sequence of items per alternative
HalvePattern ==
   {
      <<Plus({"h"}), Plus({"a"}), Plus({"l"}), Plus({"v"}), One({"e"}), Opt({"s","d"})>>
   }

\* r'm+u+l+t+i+p+l+[iy]|t+r+i+p+l+e[sd]?|d+o+...' (line 282), one sequence of items per alternative
MultiplyPattern ==
   {
      <<Plus({"m"}), Plus({"u"}), Plus({"l"}), Plus({"t"}), Plus({"i"}), Plus({"p"}), Plus({"l"}), One({"i","y"})>>,
      <<Plus({"t"}), Plus({"r"}), Plus({"i"}), Plus({"p"}), Plus({"l"}), One({"e"}), Opt({"s","d"})>>,
      <<Plus({"d"}), Plus({"o"}), Plus({"u"}), Plus({"b"}), Plus({"l"}), One({"e"}), Opt({"s","d"})>>,
      <<Plus({"t"}), Plus({"i"}), Plus({"m"}), Plus({"e"}), One({"s"})>>,
      <<Plus({"f"}), Plus({"a"}), Plus({"c"}), Plus({"t"}), Plus({"o"}), One({"r"})>>
   }

\* r'd+i+v+i+d+e[db]|s+p+l+i+t+s+i+n+t+o|p+e+...' (line 285), one sequence of items per alternative
DividePattern ==
   {
      <<Plus({"d"}), Plus({"i"}), Plus({"v"}), Plus({"i"}), Plus({"d"}), One({"e"}), One({"d","b"})>>,
      <<Plus({"s"}), Plus({"p"}), Plus({"l"}), Plus({"i"}), Plus({"t"}), Plus({"s"}), Plus({"i"}), Plus({"n"}), Plus({"t"}), One({"o"})>>,
      <<Plus({"p"}), Plus({"e"}), Plus({"r"}), Plus({"g"}), Plus({"r"}), Plus({"o"}), Plus({"u"}), One({"p"})>>,
      <<Plus({"d"}), Plus({"i"}), Plus({"v"}), Plus({"i"}), Plus({"d"}), Plus({"e"}), One({"s"})>>
   }

\* r's+l+o+w+(?:s|i+n+g|e+d)?|l+o+s+e+s?|m+i+...' (line 288), one sequence of items per alternative
SubtractPattern ==
   {
      <<Plus({"s"}), Plus({"l"}), Plus({"o"}), Plus({"w"})>>,
      <<Plus({"s"}), Plus({"l"}), Plus({"o"}), Plus({"w"}), One({"s"})>>,
      <<Plus({"s"}), Plus({"l"}), Plus({"o"}), Plus({"w"}), Plus({"i"}), Plus({"n"}), One({"g"})>>,
      <<Plus({"s"}), Plus({"l"}), Plus({"o"}), Plus({"w"}), Plus({"e"}), One({"d"})>>,
      <<Plus({"l"}), Plus({"o"}), Plus({"s"}), Plus({"e"}), Opt({"s"})>>,
      <<Plus({"m"}), Plus({"i"}), Plus({"n"}), Plus({"u"}), One({"s"})>>,
      <<Plus({"r"}), Plus({"e"}), Plus({"d"}), Plus({"u"}), Plus({"c"}), Plus({"e"}), Opt({"s"})>>,
      <<Plus({"d"}), Plus({"e"}), Plus({"c"}), Plus({"r"}), Plus({"e"}), Plus({"a"}), Plus({"s"}), Plus({"e"}), Opt({"s"})>>,
      <<Plus({"d"}), Plus({"r"}), Plus({"o"}), Plus({"p"}), Opt({"s"})>>,
      <<Plus({"r"}), Plus({"e"}), Plus({"m"}), Plus({"o"}), Plus({"v"}), Plus({"e"}), Opt({"s"})>>,
      <<Plus({"s"}), Plus({"u"}), Plus({"b"}), Plus({"t"}), Plus({"r"}), Plus({"a"}), Plus({"c"}), Plus({"t"}), Opt({"s"})>>,
      <<Plus({"f"}), Plus({"e"}), Plus({"w"}), Plus({"e"}), One({"r"})>>,
      <<Plus({"d"}), Plus({"e"}), Plus({"c"}), Plus({"e"}), Plus({"l"}), Plus({"e"}), Plus({"r"}), Plus({"a"}), Plus({"t"}), Plus({"e"}), Opt({"s"})>>
   }

\* r'p+l+u+s|g+a+i+n+s|i+n+c+r+e+a+s+e+s|c+o+...' (line 291), one sequence of items per alternative
AddPattern ==
   {
      <<Plus({"p"}), Plus({"l"}), Plus({"u"}), One({"s"})>>,
      <<Plus({"g"}), Plus({"a"}), Plus({"i"}), Plus({"n"}), One({"s"})>>,
      <<Plus({"i"}), Plus({"n"}), Plus({"c"}), Plus({"r"}), Plus({"e"}), Plus({"a"}), Plus({"s"}), Plus({"e"}), One({"s"})>>,
      <<Plus({"c"}), Plus({"o"}), Plus({"m"}), Plus({"b"}), Plus({"i"}), Plus({"n"}), Plus({"e"}), One({"d"})>>,
      <<Plus({"t"}), Plus({"o"}), Plus({"t"}), Plus({"a"}), One({"l"})>>,
      <<Plus({"a"}), Plus({"d"}), Plus({"d"}), One({"s"})>>,
      <<Plus({"t"}), Plus({"o"}), Plus({"g"}), Plus({"e"}), Plus({"t"}), Plus({"h"}), Plus({"e"}), One({"r"})>>,
      <<Plus({"a"}), Plus({"c"}), Plus({"c"}), Plus({"e"}), Plus({"l"}), Plus({"e"}), Plus({"r"}), Plus({"a"}), Plus({"t"}), Plus({"e"}), One({"s"})>>
   }

\* \w of the regular expressions
IsWordChar(c) == IsAlnum(c) \/ c = "_"

\* _match(r'\bby\b', text)
MatchByWord(s) ==
   \E j \in 0..(Len(s) - 2) :
      /\ At(s, j) = "b" /\ At(s, j + 1) = "y"
      /\ (j = 0 \/ ~IsWordChar(At(s, j - 1)))
      /\ (j + 2 = Len(s) \/ ~IsWordChar(At(s, j + 2)))

\* the character at index k of s is inside a run of three or more equal
\* characters and is not the first of that run
Collapsed(s, k) ==
   /\ k > 1 /\ s[k - 1] = s[k]
   /\ (k > 2 /\ s[k - 2] = s[k]) \/ (k < Len(s) /\ s[k + 1] = s[k])

\* the characters of s at the indices kept
Pick(s, kept) == [n \in DOMAIN kept |-> s[kept[n]]]

\* _dedup(s): re.sub(r'(.)\1{2,}', r'\1', s).  A maximal run of three or more
\* equal characters keeps its first character, shorter runs are kept whole.
dedup(s) == Pick(s, SelectSeq([k \in DOMAIN s |-> k], LAMBDA k : ~Collapsed(s, k)))

\* re.sub(r'[^a-zA-Z0-9]', '', challenge_text).lower()
AlphaDigitsView(text) == Lower(SelectSeq(text, IsAlnum))

\* re.sub(r'[^a-zA-Z0-9\s]', ' ', challenge_text)
SymbolsToSpaces(text) == [k \in DOMAIN text |-> IF IsAlnum(text[k]) \/ IsSpace(text[k]) THEN text[k] ELSE " "]

\* spaced = _dedup(re.sub(r'[^a-zA-Z0-9\s]', ' ', challenge_text).lower())
SpacedView(text) == dedup(Lower(SymbolsToSpaces(text)))

\* ctx = alpha_digits + ' ' + spaced
Ctx(text) == AlphaDigitsView(text) \o <<" ">> \o SpacedView(text)

\* [int(x) for x in re.findall(r'\d+', s)], from offset p on
RECURSIVE DigitRuns(_, _)
DigitRuns(s, p) ==
   IF p >= Len(s) THEN <<>>
   ELSE IF IsDigit(At(s, p))
   THEN <<ToInt(Slice(s, p, DigitRunEnd(s, p)))>> \o DigitRuns(s, DigitRunEnd(s, p))
   ELSE DigitRuns(s, p + 1)

(***************************************************************************)
(* Floats and f"{x:.2f}".  Every float of the model is the quotient of two *)
(* small integers; it is kept as that quotient n/d.  Products, sums and    *)
(* differences are exact doubles; a quotient is the double nearest to n/d. *)
(***************************************************************************)
Abs(n) == IF n < 0 THEN -n ELSE n

RECURSIVE GCD(_, _)
GCD(m, n) == IF n = 0 THEN m ELSE GCD(n, m % n)

RECURSIVE IsPow2(_)
IsPow2(n) == n = 1 \/ (n > 1 /\ n % 2 = 0 /\ IsPow2(n \div 2))

\* the e with 2^e <= n/d < 2^(e+1), for n, d > 0
RECURSIVE Log2Floor(_, _)
Log2Floor(n, d) ==
   IF n >= d THEN (IF n >= 2 * d THEN 1 + Log2Floor(n, 2 * d) ELSE 0)
   ELSE Log2Floor(2 * n, d) - 1

RECURSIVE PowMod2(_, _)
PowMod2(e, d) == IF e = 0 THEN 1 % d ELSE (2 * PowMod2(e - 1, d)) % d

\* the double nearest to n/d (53-bit significand) is greater than n/d
DoubleIsAbove(n, d) == 2 * (((n % d) * PowMod2(52 - Log2Floor(n, d), d)) % d) > d

RECURSIVE IntToStr(_)
IntToStr(n) == IF n < 10 THEN <<DigitChars[n + 1]>> ELSE IntToStr(n \div 10) \o <<DigitChars[(n % 10) + 1]>>

\* the digits of h hundredths, with the sign
Hundredths(negative, h) ==
   (IF negative THEN <<"-">> ELSE <<>>) \o IntToStr(h \div 100) \o <<".">>
      \o <<DigitChars[((h \div 10) % 10) + 1], DigitChars[(h % 10) + 1]>>

\* the decimal with two fractional digits nearest to the double n/d, n >= 0, is
\* the one above: ties (possible only when the double is n/d itself) go to the
\* even digit
RoundsUp(n, d) ==
   IF 2 * ((100 * n) % d) # d THEN 2 * ((100 * n) % d) > d
   ELSE IF IsPow2(d \div GCD(n, d)) THEN ((100 * n) \div d) % 2 = 1
   ELSE DoubleIsAbove(n, d)

\* f"{x:.2f}" for the float x = n/d
Fmt2(n, d) == Hundredths(n < 0, ((100 * Abs(n)) \div d) + (IF RoundsUp(Abs(n), d) THEN 1 ELSE 0))

(***************************************************************************)
(* solve_challenge.  An outcome is a returned string, the returned None,   *)
(* or the exception that ended the call.                                   *)
(***************************************************************************)
Str(v) == [tag |-> "str", val |-> v]

ReturnNone == [tag |-> "None", val |-> <<>>]

RaiseIndexError == [tag |-> "IndexError", val |-> <<>>]

Pending == [tag |-> "pending", val |-> <<>>]

\* load_state without a state file (lines 23-31): the feed keys of the defaults
DefaultState == [seen_post_ids |-> {}, last_feed_check |-> "None"]

\* no feed call was made
FeedUnused == state = DefaultState /\ new_posts = <<>> /\ known = {}

\* a dict entry that may be missing: d.get(key) is None when it is
Absent == [present |-> FALSE, val |-> <<>>]

Present(v) == [present |-> TRUE, val |-> v]

\* "not x" for x = d.get(key), a str or None
Falsy(x) == ~x.present \/ x.val = <<>>

\* the dict verification: its verification_code and challenge_text
NoVerification == [verification_code |-> Absent, challenge_text |-> Absent]

\* a response of the API: its success flag, the verification it carries and
\* the two keys _verify adds
NoResponse == [success |-> FALSE, verification |-> NoVerification, verification_result |-> Absent, answer_submitted |-> Absent]

\* the caller has no value yet
NotReturned == [tag |-> "pending", resp |-> NoResponse, challenge |-> <<>>]

\* return resp
ReturnResp(r) == [tag |-> "resp", resp |-> r, challenge |-> <<>>]

\* line 316: return {"success": False, "error": "Solver failed", "challenge": challenge}
SolverFailed(challenge) == [tag |-> "Solver failed", resp |-> NoResponse, challenge |-> challenge]

\* an exception leaves _verify
Raised(name) == [tag |-> name, resp |-> NoResponse, challenge |-> <<>>]

\* no call came before this one
NoCall == [text |-> <<>>, result |-> Pending]

\* single-number special cases whose triple branch multiplies by 2
SingleNumberTripleAsDouble(x, ctx) ==
   IF Match(DoublePattern, ctx) THEN Str(Fmt2(x * 2, 1))
   ELSE IF Match(TriplePattern, ctx) THEN Str(Fmt2(x * 2, 1))
   ELSE IF Match(HalvePattern, ctx) THEN Str(Fmt2(x, 2))
   ELSE ReturnNone

\* lines 245-250: the single-number special cases, a = float(numbers[0])
SingleNumber(x, ctx) ==
   IF Match(DoublePattern, ctx) THEN Str(Fmt2(x * 2, 1))
   ELSE IF Match(TriplePattern, ctx) THEN Str(Fmt2(x * 3, 1))
   ELSE IF Match(HalvePattern, ctx) THEN Str(Fmt2(x, 2))
   ELSE ReturnNone

\* line 262-264: numbers[k] is a phantom standalone tens
PhantomTens(nums, k) ==
   /\ k + 1 < Len(nums)
   /\ At(nums, k) % 10 = 0 /\ 0 < At(nums, k) /\ At(nums, k) < 100
   /\ At(nums, k) < At(nums, k + 1) /\ At(nums, k + 1) < At(nums, k) + 10

\* lines 259-268: the de-noise loop from index k (0-based) on
RECURSIVE DenoiseLoop(_, _, _)
DenoiseLoop(nums, k, denoised) ==
   IF k >= Len(nums) THEN denoised
   ELSE IF PhantomTens(nums, k)
   THEN DenoiseLoop(nums, k + 1, denoised)
   ELSE DenoiseLoop(nums, k + 1, Append(denoised, At(nums, k)))

\* lines 269-270: "if denoised: numbers = denoised"
KeepIfEmpty(denoised, nums) == IF denoised # <<>> THEN denoised ELSE nums

\* lines 259-270
Denoise(nums) == KeepIfEmpty(DenoiseLoop(nums, 0, <<>>), nums)

\* an operand selection that never looks for "by": the first two numbers
SelectFirstTwo(nums, spaced) ==
   IF Len(nums) < 2
   THEN [ok |-> FALSE, a |-> 0, b |-> 0]
   ELSE [ok |-> TRUE, a |-> nums[1], b |-> nums[2]]

\* lines 275-278: the operands, or the IndexError of numbers[1]
SelectOperands(nums, spaced) ==
   IF Len(nums) >= 3 /\ MatchByWord(spaced)
   THEN [ok |-> TRUE, a |-> nums[Len(nums) - 1], b |-> nums[Len(nums)]]
   ELSE IF Len(nums) < 2
   THEN [ok |-> FALSE, a |-> 0, b |-> 0]
   ELSE [ok |-> TRUE, a |-> nums[1], b |-> nums[2]]

\* a classification that tests Subtract before Multiply and Divide
EvaluateSubtractFirst(x, y, ctx) ==
   IF Match(SubtractPattern, ctx) THEN Str(Fmt2(x - y, 1))
   ELSE IF Match(MultiplyPattern, ctx) THEN Str(Fmt2(x * y, 1))
   ELSE IF Match(DividePattern, ctx) THEN (IF y # 0 THEN Str(Fmt2(x, y)) ELSE Str(<<"0", ".", "0", "0">>))
   ELSE Str(Fmt2(x + y, 1))

\* a Divide branch without the test of b: a / 0.0 raises ZeroDivisionError
EvaluateUnguarded(x, y, ctx) ==
   IF Match(MultiplyPattern, ctx) THEN Str(Fmt2(x * y, 1))
   ELSE IF Match(DividePattern, ctx)
   THEN (IF y # 0 THEN Str(Fmt2(x, y)) ELSE [tag |-> "ZeroDivisionError", val |-> <<>>])
   ELSE IF Match(SubtractPattern, ctx) THEN Str(Fmt2(x - y, 1))
   ELSE Str(Fmt2(x + y, 1))

\* lines 282-294
Evaluate(x, y, ctx) ==
   IF Match(MultiplyPattern, ctx) THEN Str(Fmt2(x * y, 1))
   ELSE IF Match(DividePattern, ctx) THEN (IF y # 0 THEN Str(Fmt2(x, y)) ELSE Str(<<"0", ".", "0", "0">>))
   ELSE IF Match(SubtractPattern, ctx) THEN Str(Fmt2(x - y, 1))
   ELSE IF Match(AddPattern, ctx) THEN Str(Fmt2(x + y, 1))
   ELSE Str(Fmt2(x + y, 1))

(***************************************************************************)
(* The state machine: one call of solve_challenge on challenge_text, one   *)
(* action for each loop iteration of _find_numbers and for each block of   *)
(* solve_challenge.                                                        *)
(***************************************************************************)

\* the state at the call of solve_challenge(text)
Call(text) ==
   /\ FeedUnused
   /\ vpc = "direct" /\ resp = NoResponse /\ verification = NoVerification
   /\ requests = <<>> /\ returned = NotReturned
   /\ earlier = NoCall
   /\ challenge_text = text
   /\ pc = "start"
   /\ ad = <<>> /\ boundaries = {} /\ raw = <<>> /\ pos = 0
   /\ combined = <<>> /\ i = 0
   /\ numbers = <<>> /\ a = 0 /\ b = 0
   /\ result = Pending

\* the call _find_numbers(challenge_text.lower()) up to the scan loop (lines 142-161)
FindStart ==
   /\ pc = "start"
   /\ ad' = AlphaDigits(Lower(challenge_text))
   /\ boundaries' = Boundaries(Lower(challenge_text))
   /\ raw' = <<>> /\ pos' = 0
   /\ pc' = "scan"
   /\ UNCHANGED <<feed, caller, earlier, challenge_text, combined, i, numbers, a, b, result>>

ScanTo(st) == raw' = st.raw /\ pos' = st.pos

\* one iteration of the scan loop (lines 162-206)
Scan ==
   /\ pc = "scan" /\ pos < Len(ad)
   /\ ScanTo(ScanStep(ad, boundaries, raw, pos))
   /\ UNCHANGED <<feed, caller, earlier, challenge_text, pc, ad, boundaries, combined, i, numbers, a, b, result>>

\* the scan loop ends (lines 162, 210-211)
ScanExit ==
   /\ pc = "scan" /\ pos >= Len(ad)
   /\ combined' = <<>> /\ i' = 0
   /\ pc' = "combine"
   /\ UNCHANGED <<feed, caller, earlier, challenge_text, ad, boundaries, raw, pos, numbers, a, b, result>>

CombineTo(st) == combined' = st.combined /\ i' = st.i

\* one iteration of the combine loop (lines 212-222)
Combine ==
   /\ pc = "combine" /\ i < Len(raw)
   /\ CombineTo(CombineStep(raw, combined, i))
   /\ UNCHANGED <<feed, caller, earlier, challenge_text, pc, ad, boundaries, raw, pos, numbers, a, b, result>>

\* _find_numbers returns (line 223) and solve_challenge binds numbers (line 238)
FindReturn ==
   /\ pc = "combine" /\ i >= Len(raw)
   /\ numbers' = combined
   /\ pc' = "solve"
   /\ UNCHANGED <<feed, caller, earlier, challenge_text, ad, boundaries, raw, pos, combined, i, a, b, result>>

\* exactly one number (lines 245-250)
Single ==
   /\ pc = "solve" /\ Len(numbers) = 1
   /\ result' = SingleNumber(numbers[1], Ctx(challenge_text))
   /\ pc' = "done"
   /\ UNCHANGED <<feed, caller, earlier, challenge_text, ad, boundaries, raw, pos, combined, i, numbers, a, b>>

FallbackTo(found) ==
   IF Len(found) < 2
   THEN result' = ReturnNone /\ pc' = "done" /\ UNCHANGED numbers
   ELSE numbers' = found /\ pc' = "denoise" /\ UNCHANGED result

\* no number: the digit runs of the spaced view (lines 252-255)
Fallback ==
   /\ pc = "solve" /\ Len(numbers) # 1 /\ Len(numbers) < 2
   /\ FallbackTo(DigitRuns(SpacedView(challenge_text), 0))
   /\ UNCHANGED <<feed, caller, earlier, challenge_text, ad, boundaries, raw, pos, combined, i, a, b>>

\* phantom-tens suppression (lines 259-270)
DenoiseNumbers ==
   /\ pc = "denoise" \/ (pc = "solve" /\ Len(numbers) >= 2)
   /\ numbers' = Denoise(numbers)
   /\ pc' = "select"
   /\ UNCHANGED <<feed, caller, earlier, challenge_text, ad, boundaries, raw, pos, combined, i, a, b, result>>

SelectTo(sel) ==
   IF sel.ok
   THEN a' = sel.a /\ b' = sel.b /\ pc' = "eval" /\ UNCHANGED result
   ELSE result' = RaiseIndexError /\ pc' = "done" /\ UNCHANGED <<a, b>>

\* operand selection (lines 275-278); numbers[1] raises IndexError on a list of one
Select ==
   /\ pc = "select"
   /\ SelectTo(SelectOperands(numbers, SpacedView(challenge_text)))
   /\ UNCHANGED <<feed, caller, earlier, challenge_text, ad, boundaries, raw, pos, combined, i, numbers>>

\* classification and evaluation (lines 282-294)
Eval ==
   /\ pc = "eval"
   /\ result' = Evaluate(a, b, Ctx(challenge_text))
   /\ pc' = "done"
   /\ UNCHANGED <<feed, caller, earlier, challenge_text, ad, boundaries, raw, pos, combined, i, numbers, a, b>>

Next == FindStart \/ Scan \/ ScanExit \/ Combine \/ FindReturn \/ Single \/ Fallback \/ DenoiseNumbers \/ Select \/ Eval

(***************************************************************************)
(* The callers of solve_challenge: post_with_verify, comment_with_verify   *)
(* and _verify.                                                            *)
(***************************************************************************)

\* the locals of solve_challenge and _find_numbers
solver == <<challenge_text, pc, ad, boundaries, raw, pos, combined, i, numbers, a, b, result>>

\* the state when api("POST", "/posts", ...) or api("POST", f"/posts/{post_id}/comments", ...)
\* has returned r (lines 300, 307)
Created(r) ==
   /\ FeedUnused
   /\ vpc = "created" /\ resp = r /\ verification = NoVerification
   /\ requests = <<>> /\ returned = NotReturned
   /\ earlier = NoCall
   /\ challenge_text = <<>> /\ pc = "idle"
   /\ ad = <<>> /\ boundaries = {} /\ raw = <<>> /\ pos = 0
   /\ combined = <<>> /\ i = 0
   /\ numbers = <<>> /\ a = 0 /\ b = 0
   /\ result = Pending

\* lines 301-302 and 308-309: return resp without success, else call _verify
CheckSuccess ==
   /\ vpc = "created"
   /\ IF ~resp.success
      THEN vpc' = "returned" /\ returned' = ReturnResp(resp) /\ UNCHANGED verification
      ELSE vpc' = "verify" /\ verification' = resp.verification /\ UNCHANGED returned
   /\ UNCHANGED <<feed, resp, requests, earlier, solver>>

\* lines 312-315: return resp without a code or a challenge, else call solve_challenge
VerifyEntry ==
   /\ vpc = "verify"
   /\ IF Falsy(verification.verification_code) \/ Falsy(verification.challenge_text)
      THEN vpc' = "returned" /\ returned' = ReturnResp(resp) /\ UNCHANGED <<challenge_text, pc>>
      ELSE vpc' = "solving" /\ challenge_text' = verification.challenge_text.val /\ pc' = "start" /\ UNCHANGED returned
   /\ UNCHANGED <<feed, resp, verification, requests, earlier, ad, boundaries, raw, pos, combined, i, numbers, a, b, result>>

\* the outcomes of api("POST", "/verify", ...): a JSON reply, or an exception
\* that api does not catch (lines 50-54 catch HTTPError only)
VerifyReplies == {<<"accepted">>, <<"rejected">>, <<"URLError">>}

\* a solver that found nothing still submits an answer
AfterSolveAlwaysSubmits(r, v, res, vr) ==
   IF res.tag \notin {"str", "None"}
   THEN [requests |-> <<>>, returned |-> Raised(res.tag)]
   ELSE [requests |-> <<[path |-> "/verify", verification_code |-> v.verification_code.val,
                         answer |-> IF res.tag = "None" THEN <<"0", ".", "0", "0">> ELSE res.val]>>,
         returned |-> IF vr = <<"URLError">> THEN Raised("URLError")
                      ELSE ReturnResp([r EXCEPT !.verification_result = Present(vr),
                                                !.answer_submitted = Present(IF res.tag = "None" THEN <<"0", ".", "0", "0">> ELSE res.val)])]

\* lines 315-320 from the outcome res of solve_challenge(challenge) on: the
\* requests sent and the value returned, or the exception raised
AfterSolve(r, v, res, vr) ==
   IF res.tag \notin {"str", "None"}
   THEN [requests |-> <<>>, returned |-> Raised(res.tag)]
   ELSE IF res.tag = "None" \/ res.val = <<>>
   THEN [requests |-> <<>>, returned |-> SolverFailed(v.challenge_text.val)]
   ELSE [requests |-> <<[path |-> "/verify", verification_code |-> v.verification_code.val, answer |-> res.val]>>,
         returned |-> IF vr = <<"URLError">> THEN Raised("URLError")
                      ELSE ReturnResp([r EXCEPT !.verification_result = Present(vr),
                                                !.answer_submitted = Present(res.val)])]

VerifyTo(out) == requests' = requests \o out.requests /\ returned' = out.returned

\* solve_challenge has ended: lines 315-320
VerifyAnswer ==
   /\ vpc = "solving" /\ pc = "done"
   /\ \E vr \in VerifyReplies : VerifyTo(AfterSolve(resp, verification, result, vr))
   /\ vpc' = "returned"
   /\ UNCHANGED <<feed, resp, verification, earlier, solver>>

NextVerify == Next \/ CheckSuccess \/ VerifyEntry \/ VerifyAnswer

(***************************************************************************)
(* The feed cursor: get_new_feed_posts and mark_post_seen.  A post id is a *)
(* positive integer; state["seen_post_ids"] is kept as the set the code    *)
(* builds from it, and the order of list(seen), which Python does not fix, *)
(* is a choice of the action.                                              *)
(***************************************************************************)

\* line 403: "/posts?sort=new&limit=50"
FeedLimit == 50

\* line 416: len(seen) > 500
SeenCap == 500

\* line 419: list(seen)[-400:]
KeepLast == 400

\* the orders list(seen) is taken in: by increasing and by decreasing id
ListOrders == {"increasing", "decreasing"}

\* set(list(seen)[-400:]) for list(seen) in the given order
LastOfList(seen, order) ==
   IF order = "increasing"
   THEN {x \in seen : Cardinality({y \in seen : y > x}) < KeepLast}
   ELSE {x \in seen : Cardinality({y \in seen : y < x}) < KeepLast}

\* lines 416-420: the cap of the seen set
Capped(seen, all_ids, order) ==
   IF Cardinality(seen) > SeenCap THEN seen \cap (all_ids \cup LastOfList(seen, order)) ELSE seen

\* lines 409-411: the posts not yet seen with enough upvotes
NewPosts(posts, seen, min_upvotes) ==
   SelectSeq(posts, LAMBDA post : post.id \notin seen /\ post.upvotes >= min_upvotes)

\* new_posts[:limit]
Take(posts, limit) == SubSeq(posts, 1, IF Len(posts) < limit THEN Len(posts) ELSE limit)

\* the ids of a list of posts
Ids(posts) == {posts[n].id : n \in DOMAIN posts}

\* get_new_feed_posts(api_key, state, min_upvotes, limit) when the API returns
\* posts (lines 403-424)
FeedCall(posts, min_upvotes, limit, order) ==
   /\ new_posts' = Take(NewPosts(posts, state.seen_post_ids, min_upvotes), limit)
   /\ state' = [seen_post_ids |-> Capped(state.seen_post_ids \cup Ids(posts), Ids(posts), order),
                last_feed_check |-> "now"]
   /\ known' = known \cup Ids(posts)

\* mark_post_seen(state, post_id) (lines 426-430); it returns no post
MarkCall(post_id) ==
   /\ state' = [state EXCEPT !.seen_post_ids = state.seen_post_ids \cup {post_id}]
   /\ new_posts' = <<>>
   /\ known' = known \cup {post_id}

(***************************************************************************)
(* Inputs.                                                                 *)
(***************************************************************************)

\* the scenarios of the documentation and a text without a number
CoreTexts ==
   {
      <<"A"," ","l","o","b","s","t","e","r"," ","s","w","i","m","s"," ","a","t"," ","t","w","e","n","t","y"," ","m","e","t","e","r","s"," ","p","e","r"," ","s","e","c","o","n","d"," ","a","n","d"," ","s","l","o","w","s"," ","b","y"," ","f","i","v","e"," ","m","e","t","e","r","s",".">>,
      <<"T","h","e"," ","c","l","a","w"," ","h","a","s"," ","t","e","n"," ","i","t","e","m","s"," ","a","n","d"," ","g","a","i","n","s"," ","t","h","r","e","e"," ","m","o","r","e",".">>,
      <<"A"," ","s","h","e","l","l"," ","m","u","l","t","i","p","l","i","e","d"," ","i","t","s"," ","m","a","s","s"," ","b","y"," ","f","o","u","r",","," ","s","t","a","r","t","i","n","g"," ","f","r","o","m"," ","s","i","x",".">>,
      <<"F","o","r","t","y"," ","f","o","r","t","y","f","i","v","e"," ","w","i","d","g","e","t","s"," ","t","o","t","a","l",".">>,
      <<"V","a","l","u","e"," ","o","f"," ","t","w","e","l","v","e"," ","i","s"," ","d","o","u","b","l","e","d",".">>,
      <<"a","n","t","e","n","n","a">>
   }

\* the texts of ws joined by single spaces
RECURSIVE Join(_)
Join(ws) == IF ws = <<>> THEN <<>> ELSE IF Len(ws) = 1 THEN ws[1] ELSE ws[1] \o <<" ">> \o Join(Tail(ws))

\* the largest operand written as a digit run
MaxOperand == 12

\* operator keywords in plain spelling, with the operation they name
PairKeywords ==
   <<
      [kw |-> <<"t","i","m","e","s">>, op |-> "mul"],
      [kw |-> <<"m","u","l","t","i","p","l","i","e","d"," ","b","y">>, op |-> "mul"],
      [kw |-> <<"d","i","v","i","d","e","d"," ","b","y">>, op |-> "div"],
      [kw |-> <<"d","i","v","i","d","e","s">>, op |-> "div"],
      [kw |-> <<"m","i","n","u","s">>, op |-> "sub"],
      [kw |-> <<"l","o","s","e","s">>, op |-> "sub"],
      [kw |-> <<"p","l","u","s">>, op |-> "add"],
      [kw |-> <<"g","a","i","n","s">>, op |-> "add"]
   >>

\* "<x> <keyword> <y>", the operands as digit runs
PairText(x, n, y) == Join(<<IntToStr(x), PairKeywords[n].kw, IntToStr(y)>>)

PairTexts == {PairText(x, n, y) : x \in 0..MaxOperand, n \in DOMAIN PairKeywords, y \in 0..MaxOperand}

\* two digit runs that only punctuation or spaces separate
SeparatedDigitTexts ==
   {IntToStr(x) \o sep \o IntToStr(y) : x \in 1..3, y \in 1..3, sep \in {<<" ">>, <<" ", "+", " ">>, <<",", " ">>}}

Init == \E text \in CoreTexts \cup PairTexts \cup SeparatedDigitTexts : Call(text)

Spec == Init /\ [][Next]_vars

\* ---- number words inside longer words

\* letters put before a number word
EmbedPrefixes == {<<>>, <<"q">>, <<"o","f">>, <<"a","n">>}

\* letters put after a number word
EmbedSuffixes == {<<>>, <<"q">>, <<"n","a">>}

\* a number word at the end, at the start and in the middle of a longer run of
\* letters that is no number word and no concatenation of number words
EmbedTexts ==
   {pre \o Words[n] \o suf : n \in DOMAIN Words, pre \in EmbedPrefixes, suf \in EmbedSuffixes} \ Range(Words)

InitEmbed == \E text \in CoreTexts \cup EmbedTexts : Call(text)

SpecEmbed == InitEmbed /\ [][Next]_vars

\* ---- several operator keywords in one text

\* a keyword of each category in plain spelling, and a word of no category
PriorityKeywords ==
   <<
      [kw |-> <<"t","i","m","e","s">>, op |-> "mul"],
      [kw |-> <<"d","i","v","i","d","e","d"," ","b","y">>, op |-> "div"],
      [kw |-> <<"m","i","n","u","s">>, op |-> "sub"],
      [kw |-> <<"p","l","u","s">>, op |-> "add"],
      [kw |-> <<"a","n","d">>, op |-> "none"]
   >>

\* the operand pairs of the texts with several keywords
PriorityOperands == {<<7, 2>>, <<3, 4>>, <<9, 0>>, <<1, 8>>}

\* the category that wins among the categories ops
TopCategory(ops) ==
   IF "mul" \in ops THEN "mul"
   ELSE IF "div" \in ops THEN "div"
   ELSE IF "sub" \in ops THEN "sub"
   ELSE "add"

\* "<keyword> <x> <keyword> <y> <keyword>" with the operation its keywords call for
PriorityCase(k1, x, k2, y, k3) ==
   [text |-> Join(<<PriorityKeywords[k1].kw, IntToStr(x), PriorityKeywords[k2].kw, IntToStr(y), PriorityKeywords[k3].kw>>),
    op |-> TopCategory({PriorityKeywords[k1].op, PriorityKeywords[k2].op, PriorityKeywords[k3].op}),
    x |-> x, y |-> y]

PriorityCases ==
   {PriorityCase(k1, xy[1], k2, xy[2], k3) :
      k1 \in DOMAIN PriorityKeywords, k2 \in DOMAIN PriorityKeywords, k3 \in DOMAIN PriorityKeywords,
      xy \in PriorityOperands}

InitPriority == \E text \in CoreTexts \cup {c.text : c \in PriorityCases} : Call(text)

SpecPriority == InitPriority /\ [][Next]_vars

\* ---- compound numbers

\* the places of twenty..ninety and of one..nine in _W2N
TensPlaces == 21..28

UnitsPlaces == 2..10

\* "T U" and "TU", alone and inside a sentence, with the value T+U
CompoundCases ==
   {[text |-> pre \o Words[t] \o sep \o Words[u] \o suf, v |-> W2N[t].v + W2N[u].v] :
      t \in TensPlaces, u \in UnitsPlaces, sep \in {<<>>, <<" ">>},
      pre \in {<<>>, <<"a","t"," ">>}, suf \in {<<>>, <<" ","m","e","t","e","r","s">>}}

InitCompound == \E text \in CoreTexts \cup {c.text : c \in CompoundCases} : Call(text)

SpecCompound == InitCompound /\ [][Next]_vars

\* ---- sequences of numbers

\* the longest sequence of numbers written in a text
MaxNumbers == 4

\* the numbers of the sequences, as digit runs
SelectNumbers == {<<"7">>, <<"4","0">>, <<"4","5">>}

\* the words between two numbers
SelectLinks == {<<"a","n","d">>, <<"b","y">>, <<"s","t","a","n","d","b","y">>}

\* the sequences of n numbers
NumberSeqs(n) == [1..n -> SelectNumbers]

\* the sequences of n - 1 links with at most one that is not "and"
LinkSeqs(n) == {ls \in [1..(n - 1) -> SelectLinks] : Cardinality({k \in 1..(n - 1) : ls[k] # <<"a","n","d">>}) <= 1}

\* number, link, number, ..., number, joined by spaces
RECURSIVE Interleave(_, _)
Interleave(ns, ls) ==
   IF Len(ns) = 1 THEN ns[1]
   ELSE ns[1] \o <<" ">> \o ls[1] \o <<" ">> \o Interleave(Tail(ns), Tail(ls))

SelectTexts == UNION {{Interleave(ns, ls) : ns \in NumberSeqs(n), ls \in LinkSeqs(n)} : n \in 2..MaxNumbers}

InitSelect == \E text \in CoreTexts \cup SelectTexts : Call(text)

SpecSelect == InitSelect /\ [][Next]_vars

\* ---- a text and the same text with a letter repeated

\* word with its k-th letter written twice
Repeat(word, k) == SubSeq(word, 1, k) \o <<word[k]>> \o SubSeq(word, k + 1, Len(word))

\* a word of a text and the separator written after it
Part(w, glue) == [w |-> w, glue |-> glue]

RECURSIVE TextOf(_)
TextOf(parts) == IF parts = <<>> THEN <<>> ELSE parts[1].w \o parts[1].glue \o TextOf(Tail(parts))

\* the first operand: a number word before a space, and two number words
\* written without a separator
DoublingFirsts ==
   {
      <<Part(<<"s","e","v","e","n">>, <<" ">>)>>,
      <<Part(<<"t","w","o">>, <<" ">>)>>,
      <<Part(<<"t","w","e","n","t","y">>, <<>>), Part(<<"s","e","v","e","n">>, <<" ">>)>>,
      <<Part(<<"t","h","r","e","e">>, <<>>), Part(<<"o","n","e">>, <<" ">>)>>
   }

\* the operator keywords
DoublingKeywords ==
   {
      <<Part(<<"d","i","v","i","d","e","d">>, <<" ">>), Part(<<"b","y">>, <<" ">>)>>,
      <<Part(<<"t","i","m","e","s">>, <<" ">>)>>,
      <<Part(<<"s","l","o","w","s">>, <<" ">>), Part(<<"b","y">>, <<" ">>)>>,
      <<Part(<<"p","l","u","s">>, <<" ">>)>>
   }

\* the second operand
DoublingSeconds == {<<"t","w","o">>, <<"s","e","v","e","n">>}

DoublingBases ==
   {first \o kw \o <<Part(second, <<>>)>> : first \in DoublingFirsts, kw \in DoublingKeywords, second \in DoublingSeconds}

\* the texts made from base by writing twice a letter of one of its words that
\* is neither the first nor the last letter of the word
Doublings(base) ==
   UNION {{TextOf([base EXCEPT ![n].w = Repeat(base[n].w, k)]) : k \in 2..(Len(base[n].w) - 1)} : n \in DOMAIN base}

\* a text and one of its doublings
DoublingCases == UNION {{<<TextOf(base), t>> : t \in Doublings(base)} : base \in DoublingBases}

\* the caller submits, after a text, the same text with a letter repeated
Recall ==
   /\ pc = "done" /\ earlier = NoCall
   /\ \E c \in DoublingCases : c[1] = challenge_text /\ challenge_text' = c[2]
   /\ earlier' = [text |-> challenge_text, result |-> result]
   /\ UNCHANGED <<feed, caller>>
   /\ pc' = "start"
   /\ ad' = <<>> /\ boundaries' = {} /\ raw' = <<>> /\ pos' = 0
   /\ combined' = <<>> /\ i' = 0
   /\ numbers' = <<>> /\ a' = 0 /\ b' = 0
   /\ result' = Pending

NextDoubling == Next \/ Recall

InitDoubling == \E text \in CoreTexts \cup {c[1] : c \in DoublingCases} : Call(text)

SpecDoubling == InitDoubling /\ [][NextDoubling]_vars

\* ---- one number and a double, triple or halve keyword

\* the keywords, plain and with a letter repeated, with the factor mul/div
\* they call for (mul = 0: no keyword of the three)
SingleKeywords ==
   <<
      [kw |-> <<"d","o","u","b","l","e","d">>, mul |-> 2, div |-> 1],
      [kw |-> <<"d","o","u","b","l","e","s">>, mul |-> 2, div |-> 1],
      [kw |-> <<"d","o","u","b","l","e">>, mul |-> 2, div |-> 1],
      [kw |-> <<"d","o","u","b","b","l","e","d">>, mul |-> 2, div |-> 1],
      [kw |-> <<"d","o","u","b","l","e","e">>, mul |-> 2, div |-> 1],
      [kw |-> <<"t","r","i","p","l","e","d">>, mul |-> 3, div |-> 1],
      [kw |-> <<"t","r","i","p","l","e","s">>, mul |-> 3, div |-> 1],
      [kw |-> <<"t","r","r","i","p","l","e">>, mul |-> 3, div |-> 1],
      [kw |-> <<"h","a","l","v","e","d">>, mul |-> 1, div |-> 2],
      [kw |-> <<"h","a","l","v","e","s">>, mul |-> 1, div |-> 2],
      [kw |-> <<"h","a","a","l","v","e">>, mul |-> 1, div |-> 2],
      [kw |-> <<"w","i","d","g","e","t","s">>, mul |-> 0, div |-> 1],
      [kw |-> <<"h","a","l","f">>, mul |-> 0, div |-> 1]
   >>

\* the one number of the text
SingleOperands == {<<"t","w","e","l","v","e">>, <<"7">>, <<"f","o","r","t","y"," ","f","i","v","e">>, <<"1","0","0">>}

\* "Value of <number> is <keyword>." and "<KEYWORD> <number>"
SingleCases ==
   {[text |-> <<"V","a","l","u","e"," ","o","f"," ">> \o x \o <<" ","i","s"," ">> \o SingleKeywords[n].kw \o <<".">>, kw |-> n] :
      x \in SingleOperands, n \in DOMAIN SingleKeywords}
   \cup
   {[text |-> SingleKeywords[n].kw \o <<" ">> \o x, kw |-> n] : x \in SingleOperands, n \in DOMAIN SingleKeywords}

InitSingle == \E text \in CoreTexts \cup {c.text : c \in SingleCases} : Call(text)

SpecSingle == InitSingle /\ [][Next]_vars

\* ---- responses of the create request

\* the verification codes a response carries: none, an empty one, one
VerificationCodes == {Absent, Present(<<>>), Present(<<"v","c">>)}

\* the challenge texts a response carries: none, an empty one, a text
ChallengeTexts == {Absent, Present(<<>>)} \cup {Present(text) : text \in CoreTexts}

Responses ==
   {[success |-> ok, verification |-> [verification_code |-> code, challenge_text |-> text],
     verification_result |-> Absent, answer_submitted |-> Absent] :
      ok \in BOOLEAN, code \in VerificationCodes, text \in ChallengeTexts}

InitVerify == \E r \in Responses : Created(r)

SpecVerify == InitVerify /\ [][NextVerify]_vars

\* ---- feeds

\* the post with id n
Post(n) == [id |-> n, upvotes |-> n % 5]

\* the k-th page of posts of the API, of FeedLimit posts
Page(k) == [n \in 1..FeedLimit |-> Post(FeedLimit * k + n)]

\* the number of pages the API has
MaxPages == 12

\* the first page that was never fetched (MaxPages when all were)
FreshPage == CHOOSE k \in 0..MaxPages : (k = MaxPages \/ (FeedLimit * k + 1) \notin known) /\ \A j \in 0..(k - 1) : (FeedLimit * j + 1) \in known

\* what api("GET", "/posts?sort=new&limit=50") returns: no post, the oldest
\* page again, or the first page not fetched yet
Feeds == {<<>>, Page(0)} \cup (IF FreshPage < MaxPages THEN {Page(FreshPage)} ELSE {})

\* the ids mark_post_seen is called with
MarkedIds == {2, 7, 58}

\* a call of get_new_feed_posts
GetNewFeedPosts ==
   /\ \E posts \in Feeds, min_upvotes \in {0, 3}, limit \in {5, 25}, order \in ListOrders :
         FeedCall(posts, min_upvotes, limit, order)
   /\ UNCHANGED <<caller, earlier, solver>>

\* a call of mark_post_seen
MarkPostSeen ==
   /\ \E post_id \in MarkedIds : MarkCall(post_id)
   /\ UNCHANGED <<caller, earlier, solver>>

NextFeed == GetNewFeedPosts \/ MarkPostSeen

\* the state after load_state, before any call
InitFeed ==
   /\ FeedUnused
   /\ vpc = "direct" /\ resp = NoResponse /\ verification = NoVerification
   /\ requests = <<>> /\ returned = NotReturned
   /\ earlier = NoCall
   /\ challenge_text = <<>> /\ pc = "idle"
   /\ ad = <<>> /\ boundaries = {} /\ raw = <<>> /\ pos = 0
   /\ combined = <<>> /\ i = 0
   /\ numbers = <<>> /\ a = 0 /\ b = 0
   /\ result = Pending

SpecFeed == InitFeed /\ [][NextFeed]_vars

\* ---- texts for the scan and the combine pass

\* every number word, as it is and with one letter replaced by a letter of no
\* number word;
\* the number words of seven letters or more with two inner letters replaced;
\* words with a letter swapped for another, alone and before another word;
\* pairs of numbers with and without letters between them, "hundred" included
ScanTexts ==
   {[Words[n] EXCEPT ![k] = "q"] : n \in DOMAIN Words, k \in 1..8}
   \cup {[[Words[n] EXCEPT ![3] = "q"] EXCEPT ![5] = "q"] : n \in {m \in DOMAIN Words : Len(Words[m]) >= 7}}
   \cup {<<"f","i","f","t","e","n","n">>,
         <<"t","h","r","a","e">>,
         <<"t","w","a","n","t","y"," ","m","e","t","e","r","s">>,
         <<"t","w","a","n","t","y","t","h","r","e","e">>,
         <<"s","e","v","a","n">>,
         <<"s","e","v","a","n","o","n","e">>,
         <<"f","a","u","r">>}
   \cup {<<"f","i","f","t","e","e","n"," ","h","u","n","d","r","e","d">>,
         <<"t","w","o"," ","h","u","n","d","r","e","d">>,
         <<"t","w","e","n","t","y"," ","h","u","n","d","r","e","d">>,
         <<"h","u","n","d","r","e","d"," ","h","u","n","d","r","e","d">>,
         <<"z","e","r","o"," ","h","u","n","d","r","e","d">>,
         <<"t","w","e","n","t","y"," ","t","h","r","e","e"," ","h","u","n","d","r","e","d">>,
         <<"t","h","r","e","e"," ","h","u","n","d","r","e","d"," ","t","w","e","n","t","y"," ","f","i","v","e">>,
         <<"1","5"," ","h","u","n","d","r","e","d">>,
         <<"5"," ","h","u","n","d","r","e","d">>,
         <<"t","w","e","n","t","y"," ","q"," ","t","h","r","e","e">>,
         <<"t","w","o"," ","q"," ","h","u","n","d","r","e","d">>,
         <<"f","i","f","t","e","e","n"," ","q"," ","h","u","n","d","r","e","d">>,
         <<"t","h","i","r","t","y"," ","q"," ","h","u","n","d","r","e","d">>,
         <<"t","w","e","l","v","e"," ","h","u","n","d","r","e","d"," ","p","l","u","s"," ","t","h","r","e","e">>,
         <<"n","i","n","e","t","y"," ","n","i","n","e">>,
         <<"f","o","r","t","y"," ","e","l","e","v","e","n">>,
         <<"t","e","n"," ","t","w","o">>}

SpecScan == (\E text \in CoreTexts \cup ScanTexts : Call(text)) /\ [][Next]_vars

\* the value of an operation on two operands, as the quotient <<n, d>>
Apply(op, x, y) ==
   CASE op = "mul" -> <<x * y, 1>>
     [] op = "div" -> <<x, y>>
     [] op = "sub" -> <<x - y, 1>>
     [] op = "add" -> <<x + y, 1>>

\* v is a decimal string with exactly two fractional digits
IsTwoDecimals(v) ==
   \E sign \in {0, 1} :
      /\ Len(v) >= sign + 4
      /\ sign = 1 => v[1] = "-"
      /\ \A k \in (sign + 1)..(Len(v) - 3) : IsDigit(v[k])
      /\ v[Len(v) - 2] = "."
      /\ IsDigit(v[Len(v) - 1]) /\ IsDigit(v[Len(v)])

\* C1: every call of solve_challenge ends with a decimal string with exactly
\* two fractional digits or with None; no stage raises an exception.
C1_SolvedOrUnsolved ==
   pc = "done" => result.tag = "None" \/ (result.tag = "str" /\ IsTwoDecimals(result.val))

\* C2: when phantom-tens suppression leaves a single value, the call takes the
\* single-operand path: value*2, value*3 or value/2 on a double/triple/halve
\* keyword, None otherwise.
C2_SinglePathAfterSuppression ==
   pc = "done" /\ Len(combined) >= 2 /\ Len(numbers) = 1
      => result = SingleNumber(numbers[1], Ctx(challenge_text))

\* C4: for two digit runs x, y around one plain operator keyword the call
\* returns op(x, y) with two fractional digits (for a division, y # 0).
C4_DigitPairs ==
   pc = "done" =>
      \A x \in 0..MaxOperand, n \in DOMAIN PairKeywords, y \in 0..MaxOperand :
         challenge_text = PairText(x, n, y) /\ ~(PairKeywords[n].op = "div" /\ y = 0)
            => result = Str(Fmt2(Apply(PairKeywords[n].op, x, y)[1], Apply(PairKeywords[n].op, x, y)[2]))

\* the operation classifier picked Divide for this text
DivideSelected == ~Match(MultiplyPattern, Ctx(challenge_text)) /\ Match(DividePattern, Ctx(challenge_text))

\* C6: whenever Divide is selected and the second operand is 0 the call returns
\* the string "0.00", for every first operand.
C6_DivisionByZero ==
   pc = "done" /\ Len(numbers) >= 2 /\ b = 0 /\ DivideSelected => result = Str(<<"0", ".", "0", "0">>)

\* C6 happens: a division of a non-zero operand by 0 has returned "0.00"
C6_Witness ==
   /\ pc = "done" /\ Len(numbers) >= 2 /\ a = MaxOperand /\ b = 0 /\ DivideSelected
   /\ result = Str(<<"0", ".", "0", "0">>)

\* C9: when the extraction yields fewer than two numbers and the spaced view
\* has two or more digit runs, the first two runs are the operands and the
\* call returns a string.
C9_RawDigitFallback ==
   pc = "done" /\ Len(combined) < 2 /\ Len(DigitRuns(SpacedView(challenge_text), 0)) >= 2
      => result = Evaluate(DigitRuns(SpacedView(challenge_text), 0)[1],
                           DigitRuns(SpacedView(challenge_text), 0)[2], Ctx(challenge_text))

\* C3: a number word that is only a part of a longer word is not extracted,
\* whether it is at the start, in the middle or at the end of that word:
\* _find_numbers returns no number for such a text.
C3_NoEmbeddedNumber ==
   pc = "solve" /\ challenge_text \in EmbedTexts => numbers = <<>>

\* C5: the operation is the highest category, in the order Multiply, Divide,
\* Subtract, Add, that has a keyword in the text, wherever its keywords are,
\* and the addition when no category has one.
C5_Priority ==
   pc = "done" =>
      \A c \in PriorityCases :
         c.text = challenge_text /\ ~(c.op = "div" /\ c.y = 0)
            => result = Str(Fmt2(Apply(c.op, c.x, c.y)[1], Apply(c.op, c.x, c.y)[2]))

\* C5 happens: a division won over a subtraction and an addition written
\* before and after it
C5_Witness ==
   /\ pc = "done"
   /\ challenge_text = PriorityCase(4, 7, 3, 2, 2).text
   /\ a = 7 /\ b = 2
   /\ result = Str(<<"3", ".", "5", "0">>)

\* C8: "T U" and "TU", for T in twenty..ninety and U in one..nine, are
\* resolved by _find_numbers to the single value T+U.
C8_Compound ==
   pc = "solve" => \A c \in CompoundCases : c.text = challenge_text => numbers = <<c.v>>

\* C8 happens: _find_numbers has returned [23] for "twentythree"
C8_Witness ==
   /\ pc = "solve"
   /\ challenge_text = Words[21] \o Words[4]
   /\ Len(raw) = 2
   /\ numbers = <<23>>

\* the operands the selection rule gives for the sequence nums
RuleOperands(nums, by) ==
   IF Len(nums) >= 3 /\ by THEN <<nums[Len(nums) - 1], nums[Len(nums)]>> ELSE <<nums[1], nums[2]>>

\* "by" is a link of the text, a word of its own
ByIsLink(text) ==
   \E k \in 1..(Len(text) - 3) : SubSeq(text, k, k + 3) = <<" ", "b", "y", " ">>

\* C10: with two numbers the operands are the first and the second; with three
\* or more they are the last two when "by" is a word of the text and the first
\* two otherwise; the evaluation receives that pair unchanged.
C10_OperandSelection ==
   challenge_text \in SelectTexts /\ Len(numbers) >= 2 =>
      /\ pc = "eval" => <<a, b>> = RuleOperands(numbers, ByIsLink(challenge_text))
      /\ pc = "done" =>
            /\ <<a, b>> = RuleOperands(numbers, ByIsLink(challenge_text))
            /\ result = Evaluate(RuleOperands(numbers, ByIsLink(challenge_text))[1],
                                 RuleOperands(numbers, ByIsLink(challenge_text))[2], Ctx(challenge_text))

\* C10 happens: of four numbers with "by" the last two were selected and added
C10_Witness ==
   /\ pc = "done"
   /\ challenge_text = Interleave(<<<<"7">>, <<"4","5">>, <<"4","0">>, <<"7">>>>, <<<<"a","n","d">>, <<"a","n","d">>, <<"b","y">>>>)
   /\ numbers = <<7, 45, 40, 7>>
   /\ a = 40 /\ b = 7
   /\ result = Str(<<"4", "7", ".", "0", "0">>)

\* C7: a text and the same text with an inner letter of a number word or of
\* an operator keyword repeated have the same outcome.
C7_DoublingInvariance ==
   pc = "done" /\ earlier # NoCall => result = earlier.result

\* C11: when exactly one number v is extracted the call returns v*2 on a
\* double keyword, v*3 on a triple keyword, v/2 on a halve keyword, with two
\* fractional digits, and None without such a keyword; a single number never
\* reaches the two-operand blocks.
C11_SingleOperand ==
   /\ Len(combined) = 1 => pc \notin {"denoise", "select", "eval"}
   /\ pc = "done" /\ Len(combined) = 1 =>
         \A c \in SingleCases :
            c.text = challenge_text =>
               result = (IF SingleKeywords[c.kw].mul = 0 THEN ReturnNone
                         ELSE Str(Fmt2(combined[1] * SingleKeywords[c.kw].mul, SingleKeywords[c.kw].div)))

\* C11 happens: the single number 45 of "Value of forty five is haalve." was halved
C11_Witness ==
   /\ pc = "done"
   /\ challenge_text = <<"V","a","l","u","e"," ","o","f"," ","f","o","r","t","y"," ","f","i","v","e"," ","i","s"," ","h","a","a","l","v","e",".">>
   /\ combined = <<45>>
   /\ result = Str(<<"2", "2", ".", "5", "0">>)

\* C12: at most one POST /verify is sent for a created post or comment, and
\* only with the answer solve_challenge returned for the challenge text of the
\* response; when the solver returns None nothing is sent and the result is a
\* failure value with the challenge text; when the response has no code or no
\* challenge text the solver is not called, nothing is sent and the response
\* is returned unchanged.
C12_VerifyOnce ==
   /\ Len(requests) <= 1
   /\ \A k \in DOMAIN requests :
         /\ resp.success /\ pc = "done" /\ result.tag = "str"
         /\ challenge_text = resp.verification.challenge_text.val
         /\ requests[k] = [path |-> "/verify", verification_code |-> resp.verification.verification_code.val,
                           answer |-> result.val]
   /\ vpc = "returned" /\ result.tag = "None" =>
         /\ requests = <<>>
         /\ returned = [tag |-> "Solver failed", resp |-> NoResponse, challenge |-> resp.verification.challenge_text.val]
   /\ (vpc # "direct" /\ (~resp.verification.verification_code.present \/ resp.verification.verification_code.val = <<>>
                           \/ ~resp.verification.challenge_text.present \/ resp.verification.challenge_text.val = <<>>)) =>
         /\ pc = "idle" /\ result = Pending
         /\ requests = <<>>
         /\ vpc = "returned" => returned = [tag |-> "resp", resp |-> resp, challenge |-> <<>>]

\* C12 happens: the answer "15.00" of the solver was sent once and is in the
\* value returned
C12_Witness ==
   /\ vpc = "returned" /\ pc = "done"
   /\ result = Str(<<"1", "5", ".", "0", "0">>)
   /\ requests = <<[path |-> "/verify", verification_code |-> <<"v","c">>, answer |-> <<"1", "5", ".", "0", "0">>]>>
   /\ returned.tag = "resp"
   /\ returned.resp.answer_submitted = Present(<<"1", "5", ".", "0", "0">>)
   /\ returned.resp.verification_result = Present(<<"accepted">>)

\* C13: a call of get_new_feed_posts never returns a post whose id was fetched
\* or marked before the call, also after the seen set was capped.
C13_NoResurfacing ==
   [][\A n \in DOMAIN new_posts' : new_posts'[n].id \notin known]_vars

\* t[j..] is word[k..] with every letter written one or more times, but for at
\* most subs letters of the word, none the first or the last, each replaced
\* by one other character
RECURSIVE FitsFrom(_, _, _, _, _)
FitsFrom(word, t, k, j, subs) ==
   IF k > Len(word) THEN j = Len(t) + 1
   ELSE
      \/ \E m \in 1..(Len(t) - j + 1) :
            /\ \A n \in j..(j + m - 1) : t[n] = word[k]
            /\ FitsFrom(word, t, k + 1, j + m, subs)
      \/ /\ subs > 0 /\ 1 < k /\ k < Len(word)
         /\ j <= Len(t) /\ t[j] # word[k]
         /\ FitsFrom(word, t, k + 1, j + 1, subs - 1)

\* the substitutions the rule grants a word
Budget(word) == IF Len(word) >= 5 THEN 1 ELSE 0

\* the n-th token of raw was matched to a word
IsWordToken(n) == ~IsDigit(At(ad, raw[n][2]))

\* the text of the n-th token of raw
TokenText(n) == Slice(ad, raw[n][2], raw[n][3])

\* C14: every accepted number-word match tolerates a differing character only
\* at an inner position of the word, at most once, and only for a word of five
\* letters or more; and a match with a substitution is accepted at an offset
\* only when the pass without substitution accepted no word there.
C14_SubstitutionRule ==
   \A n \in DOMAIN raw :
      IsWordToken(n) =>
         /\ \E m \in DOMAIN Words : W2N[m].v = raw[n][1] /\ FitsFrom(Words[m], TokenText(n), 1, 1, Budget(Words[m]))
         /\ (~\E m \in DOMAIN Words : W2N[m].v = raw[n][1] /\ FitsFrom(Words[m], TokenText(n), 1, 1, 0))
               => WordLoop(1, ad, raw[n][2], boundaries, PrevIsTens(SubSeq(raw, 1, n - 1), raw[n][2]), 0, 0,
                           [val |-> None, end |-> raw[n][2]]).val = None

\* C14 happens: "fiqteen" was accepted as fifteen, with one inner letter replaced
C14_Witness ==
   /\ pc = "solve"
   /\ ad = <<"f","i","q","t","e","e","n">>
   /\ raw = <<<<15, 0, 7>>>>
   /\ ~FitsFrom(Words[16], ad, 1, 1, 0)

\* C15: at every step of the scan each token of raw has start < end <= Len(ad),
\* each token starts at or after the end of the token before it, and every
\* iteration of the scan loop moves pos forward.
C15_ScanInvariant ==
   /\ [](\A n \in DOMAIN raw :
            /\ raw[n][2] < raw[n][3] /\ raw[n][3] <= Len(ad)
            /\ n > 1 => raw[n - 1][3] <= raw[n][2])
   /\ [][pc = "scan" /\ pc' = "scan" => pos' > pos]_vars

\* C15 happens: the scan is past two tokens with skipped characters between them
C15_Witness ==
   /\ pc = "scan"
   /\ Len(raw) >= 2
   /\ raw[1][3] < raw[2][2]
   /\ pos = raw[2][3]

\* a multiple of ten in [20, 90]
IsTens(v) == 20 <= v /\ v <= 90 /\ v % 10 = 0

\* the step of the combine pass at i follows the merge rule, where firsts are
\* the values that merge with a following 100
CombineOK(firsts) ==
   /\ Len(combined') = Len(combined) + 1
   /\ SubSeq(combined', 1, Len(combined)) = combined
   /\ i' <= Len(raw)
   /\ IF i + 2 <= Len(raw) /\ raw[i + 2][2] = raw[i + 1][3] /\ IsTens(raw[i + 1][1]) /\ raw[i + 2][1] \in 1..9
      THEN i' = i + 2 /\ combined'[Len(combined')] = raw[i + 1][1] + raw[i + 2][1]
      ELSE IF i + 2 <= Len(raw) /\ raw[i + 2][2] = raw[i + 1][3] /\ raw[i + 1][1] \in firsts /\ raw[i + 2][1] = 100
      THEN i' = i + 2 /\ combined'[Len(combined')] = raw[i + 1][1] * 100
      ELSE i' = i + 1 /\ combined'[Len(combined')] = raw[i + 1][1]

\* C16 as stated: only a tens value or a units value merges with a following
\* 100; every other token passes through unchanged.
C16_HundredAfterTensOrUnits ==
   [][pc = "combine" /\ pc' = "combine" => CombineOK({v \in 1..90 : IsTens(v) \/ v <= 9})]_vars

\* C16: two consecutive tokens merge only with zero gap; a multiple of ten in
\* [20, 90] followed by a value in [1, 9] merges to their sum, any other value
\* followed by the value 100 merges to value * 100; every other token passes
\* through unchanged and in order, and every token of raw goes into exactly
\* one value of the output.
C16_CombinePass ==
   /\ [][pc = "combine" /\ pc' = "combine" => CombineOK(Nat)]_vars
   /\ [](pc = "solve" => i = Len(raw) /\ numbers = combined)

\* C16 happens: fifteen and hundred, with no gap, were merged to 1500
C16_Witness ==
   /\ pc = "solve"
   /\ raw = <<<<15, 0, 7>>, <<100, 7, 14>>>>
   /\ combined = <<1500>>

====
